---- MODULE Spec2Model ----
(***************************************************************************)
(* Model of download-dynamic-tables-metadata.py: the class                 *)
(* AACTDataElementsDownloader and its __main__ driver.  The control thread *)
(* is modelled statement by statement (pc), the remote jsGrid page as an   *)
(* environment that renders on its own schedule.                           *)
(***************************************************************************)
EXTENDS Integers, Sequences, FiniteSets, TLC

\* ---------------------------------------------------------------- bounds
MaxPages == 4
PageSize == 2

\* ------------------------------------------------------ program constants
Timeout == 10
PollFrequency == 1

VARIABLES
    pc,            \* position of the control thread
    session,       \* self.driver: "none" | "open" | "quit"
    current_page,  \* local of get_data_elements_metadata
    total_pages,   \* local of get_data_elements_metadata / get_total_pages
    table_headers, \* local of get_data_elements_metadata
    table_data,    \* local of get_data_elements_metadata
    csv,           \* rows of the file written by to_csv
    elapsed,       \* time spent in the running WebDriverWait.until
    element,       \* WebElement held by visibility_of: the render it belongs to
    error,         \* the exception that ended the run, "" while none
    T,             \* remote page: number of pages of the grid
    lastRows,      \* remote page: number of rows of the last page
    pager,         \* remote page: state of div.jsgrid-pager-container
    grid,          \* remote page: state of the body rows
    gridPage,      \* remote page: page index the grid displays
    pending,       \* remote page: clicks on Next not yet applied
    waitsOK,       \* history: successful wait_for_table calls
    extractions,   \* history: row extraction script calls
    clicks,        \* history: click_next_button calls
    exportCount,   \* history: to_csv calls that wrote the file
    quitCalls,     \* history: driver.quit calls
    earlyRead,     \* history: the pager or the headers were read before any successful wait
    sawZero,       \* history: get_total_pages read a zero
    firstNonZero,  \* history: first non-zero total read by update_total_pages
    startPage      \* history: current_page as first parsed

vars == <<pc, session, current_page, total_pages, table_headers, table_data,
          csv, elapsed, element, error, T, lastRows, pager, grid, gridPage,
          pending, waitsOK, extractions, clicks, exportCount, quitCalls,
          earlyRead, sawZero, firstNonZero, startPage>>

prog == <<pc, session, current_page, total_pages, table_headers, table_data,
          csv, elapsed, element, error>>
page == <<T, lastRows, pager, grid, gridPage, pending>>
hist == <<waitsOK, extractions, clicks, exportCount, quitCalls, earlyRead,
          sawZero, firstNonZero, startPage>>

\* ------------------------------------------------------- the remote page
\* Decimal text of a page number, as the pager prints it.
NumStr == <<"1", "2", "3", "4", "5", "6", "7", "8", "9">>
Numeral(n) == IF n = 0 THEN "0" ELSE NumStr[n]

\* Column names of the grid (#jsGrid div th).
Headers == <<"col1", "col2">>

\* Number of body rows page p of the grid holds.
RowsOn(p) == IF p = T THEN lastRows ELSE PageSize

\* Body rows of page p, each a sequence of cell texts (here: page, row).
RowsOf(p) == [r \in 1..RowsOn(p) |-> <<p, r>>]

\* textContent of the pager container, split on " ".
PagerText ==
    CASE pager = "ready"   -> <<"Pages:", "First", "Prev", "Next", "Last",
                                Numeral(gridPage), "of", Numeral(T), "">>
      [] pager = "loading" -> <<"Pages:", "First", "Prev", "Next", "Last",
                                Numeral(gridPage), "of", Numeral(0), "">>
      [] pager = "notrail" -> <<"Pages:", "First", "Prev", "Next", "Last",
                                Numeral(gridPage), "of", Numeral(T)>>
      [] pager = "short"   -> <<"">>
      [] OTHER             -> <<>>

\* int(s): the value of a decimal numeral, ValueError otherwise.
IsNumeral(s) == \E n \in 0..Len(NumStr) : Numeral(n) = s
IntOf(s) == CHOOSE n \in 0..Len(NumStr) : Numeral(n) = s

\* int(text.split(" ")[-k]) on the pager text; err names the exception.
ParsePager(k) ==
    IF pager = "absent" THEN [err |-> "JavascriptException", val |-> 0]
    ELSE IF k > Len(PagerText) THEN [err |-> "IndexError", val |-> 0]
    ELSE LET tok == PagerText[Len(PagerText) + 1 - k]
         IN  IF IsNumeral(tok) THEN [err |-> "", val |-> IntOf(tok)]
             ELSE [err |-> "ValueError", val |-> 0]

Loaded == session = "open" /\ pc \notin {"main", "load_page"}

\* The widget script runs: the pager container appears, its data not fetched.
WidgetInit ==
    /\ Loaded /\ pager = "absent"
    /\ pager' = "loading"
    /\ UNCHANGED <<T, lastRows, grid, gridPage, pending>>
    /\ UNCHANGED <<prog, hist>>

\* The data fetch completes: the pager shows the real page count.
DataLoaded ==
    /\ Loaded /\ pager = "loading"
    /\ pager' = "ready"
    /\ UNCHANGED <<T, lastRows, grid, gridPage, pending>>
    /\ UNCHANGED <<prog, hist>>

\* The body rows are attached to the document, not yet laid out.
Attach ==
    /\ Loaded /\ grid = "absent" /\ pager \notin {"absent", "loading"}
    /\ grid' = "hidden"
    /\ UNCHANGED <<T, lastRows, pager, gridPage, pending>>
    /\ UNCHANGED <<prog, hist>>

\* The attached rows become visible.
Show ==
    /\ Loaded /\ grid = "hidden"
    /\ grid' = "visible"
    /\ UNCHANGED <<T, lastRows, pager, gridPage, pending>>
    /\ UNCHANGED <<prog, hist>>

\* The grid handles a click on Next: it moves to the next page, either
\* re-rendered at once or with its rows removed until the new ones arrive.
ApplyClick ==
    /\ Loaded /\ pending > 0
    /\ pending' = pending - 1
    /\ IF gridPage < T
       THEN /\ gridPage' = gridPage + 1
            /\ grid' \in {"visible", "absent"}
       ELSE UNCHANGED <<gridPage, grid>>
    /\ UNCHANGED <<T, lastRows, pager>>
    /\ UNCHANGED <<prog, hist>>

Env == WidgetInit \/ DataLoaded \/ Attach \/ Show \/ ApplyClick

\* ---------------------------------------------------- the control thread
\* An exception nobody catches: the interpreter exits with the traceback.
Raise(e) == pc' = "aborted" /\ error' = e

Init ==
    /\ pc = "main"
    /\ session = "none"
    /\ current_page = 0
    /\ total_pages = 0
    /\ table_headers = <<>>
    /\ table_data = <<>>
    /\ csv = <<>>
    /\ elapsed = 0
    /\ element = 0
    /\ error = ""
    /\ T \in 1..MaxPages
    /\ lastRows \in 1..PageSize
    /\ pager = "absent"
    /\ grid = "absent"
    /\ gridPage = 1
    /\ pending = 0
    /\ waitsOK = 0
    /\ extractions = 0
    /\ clicks = 0
    /\ exportCount = 0
    /\ quitCalls = 0
    /\ earlyRead = FALSE
    /\ sawZero = FALSE
    /\ firstNonZero = 0
    /\ startPage = 0

\* setup_webdriver: the browser starts, or webdriver.Chrome raises.
setup_webdriver ==
    /\ pc = "main"
    /\ \/ /\ session' = "open"
          /\ pc' = "load_page"
          /\ UNCHANGED error
       \/ /\ Raise("LaunchError")
          /\ UNCHANGED session
    /\ UNCHANGED <<current_page, total_pages, table_headers, table_data, csv,
                   elapsed, element>>
    /\ UNCHANGED <<page, hist>>

\* load_page: driver.get returns with the document in whatever state its
\* scripts have reached.
load_page ==
    /\ pc = "load_page"
    /\ pager' \in {"absent", "loading", "ready", "notrail", "short"}
    /\ grid' \in IF pager' \in {"absent", "loading"}
                 THEN {"absent"} ELSE {"absent", "visible"}
    /\ pc' = "read_current"
    /\ UNCHANGED <<session, current_page, total_pages, table_headers,
                   table_data, csv, elapsed, element, error>>
    /\ UNCHANGED <<T, lastRows, gridPage, pending>>
    /\ UNCHANGED hist

\* Lines 62-66: current_page = int(text.split(" ")[-4]).
ReadCurrentPage ==
    /\ pc = "read_current"
    /\ LET r == ParsePager(4)
       IN  IF r.err # ""
           THEN Raise(r.err) /\ UNCHANGED <<current_page, startPage>>
           ELSE /\ current_page' = r.val
                /\ startPage' = r.val
                /\ pc' = "total_first"
                /\ UNCHANGED error
    /\ earlyRead' = (earlyRead \/ waitsOK = 0)
    /\ UNCHANGED <<session, total_pages, table_headers, table_data, csv,
                   elapsed, element>>
    /\ UNCHANGED page
    /\ UNCHANGED <<waitsOK, extractions, clicks, exportCount, quitCalls,
                   sawZero, firstNonZero>>

\* update_total_pages, called from get_total_pages: one read of the pager.
update_total_pages ==
    /\ LET r == ParsePager(2)
       IN  IF r.err # ""
           THEN Raise(r.err) /\ UNCHANGED <<total_pages, sawZero, firstNonZero>>
           ELSE /\ total_pages' = r.val
                /\ pc' = "total_test"
                /\ sawZero' = (sawZero \/ r.val = 0)
                /\ firstNonZero' = IF firstNonZero = 0 THEN r.val
                                   ELSE firstNonZero
                /\ UNCHANGED error
    /\ earlyRead' = (earlyRead \/ waitsOK = 0)
    /\ UNCHANGED <<session, current_page, table_headers, table_data, csv,
                   elapsed, element>>
    /\ UNCHANGED page
    /\ UNCHANGED <<waitsOK, extractions, clicks, exportCount, quitCalls,
                   startPage>>

\* Line 56: the first read of get_total_pages.
TotalFirst == pc = "total_first" /\ update_total_pages

\* get_total_pages without its retry loop: whatever was read is returned.
TotalTestNoRetry ==
    /\ pc = "total_test"
    /\ pc' = "read_headers"
    /\ UNCHANGED <<session, current_page, total_pages, table_headers,
                   table_data, csv, elapsed, element, error>>
    /\ UNCHANGED <<page, hist>>

\* Line 57: while total_pages == 0; line 59: return total_pages.
TotalTest ==
    /\ pc = "total_test"
    /\ pc' = IF total_pages = 0 THEN "total_again" ELSE "read_headers"
    /\ UNCHANGED <<session, current_page, total_pages, table_headers,
                   table_data, csv, elapsed, element, error>>
    /\ UNCHANGED <<page, hist>>

\* Line 58: the read inside the loop of get_total_pages.
TotalAgain == pc = "total_again" /\ update_total_pages

\* Lines 68-72: the header cells are read once, table_data starts empty.
ReadHeaders ==
    /\ pc = "read_headers"
    /\ table_headers' = Headers
    /\ table_data' = <<>>
    /\ pc' = "loop_test"
    /\ earlyRead' = (earlyRead \/ waitsOK = 0)
    /\ UNCHANGED <<session, current_page, total_pages, csv, elapsed, element,
                   error>>
    /\ UNCHANGED page
    /\ UNCHANGED <<waitsOK, extractions, clicks, exportCount, quitCalls,
                   sawZero, firstNonZero, startPage>>

\* The paging loop without its wait gate: rows are read straight away.
LoopTestNoWait ==
    /\ pc = "loop_test"
    /\ IF current_page <= total_pages
       THEN pc' = "extract" /\ elapsed' = 0
       ELSE pc' = "quit" /\ UNCHANGED elapsed
    /\ UNCHANGED <<session, current_page, total_pages, table_headers,
                   table_data, csv, element, error>>
    /\ UNCHANGED <<page, hist>>

\* Line 73: while current_page <= total_pages.
LoopTest ==
    /\ pc = "loop_test"
    /\ IF current_page <= total_pages
       THEN pc' = "wait_presence" /\ elapsed' = 0
       ELSE pc' = "quit" /\ UNCHANGED elapsed
    /\ UNCHANGED <<session, current_page, total_pages, table_headers,
                   table_data, csv, element, error>>
    /\ UNCHANGED <<page, hist>>

\* wait_for_table swallowing the timeout and returning False: the caller's
\* "if" skips the extraction and goes on with the next page.
WaitTimeoutSkipsPage == pc' = "last_test" /\ UNCHANGED error

\* WebDriverWait.until past its deadline: raise TimeoutException.
WaitTimeout == Raise("TimeoutException")

\* WebDriverWait.until with no deadline: it polls until the condition holds.
WaitAgainNoDeadline == UNCHANGED <<elapsed, pc, error>>

\* One failed poll of WebDriverWait.until: sleep, then check the deadline.
WaitAgain ==
    /\ elapsed' = elapsed + PollFrequency
    /\ IF elapsed' > Timeout THEN WaitTimeout ELSE UNCHANGED <<pc, error>>

\* Line 35: until(presence_of_element_located(tr[1]/td[3])).
WaitPresence ==
    /\ pc = "wait_presence"
    /\ IF grid # "absent"
       THEN pc' = "find_element" /\ UNCHANGED <<elapsed, error>>
       ELSE WaitAgain
    /\ UNCHANGED <<session, current_page, total_pages, table_headers,
                   table_data, csv, element>>
    /\ UNCHANGED <<page, hist>>

\* Line 37: driver.find_element, outside any wait.
FindElement ==
    /\ pc = "find_element"
    /\ IF grid # "absent"
       THEN /\ element' = gridPage
            /\ elapsed' = 0
            /\ pc' = "wait_visible"
            /\ UNCHANGED error
       ELSE Raise("NoSuchElementException") /\ UNCHANGED <<element, elapsed>>
    /\ UNCHANGED <<session, current_page, total_pages, table_headers,
                   table_data, csv>>
    /\ UNCHANGED <<page, hist>>

\* Lines 36-39: until(visibility_of(element)); return True.
WaitVisible ==
    /\ pc = "wait_visible"
    /\ IF grid = "absent" \/ element # gridPage
       THEN Raise("StaleElementReferenceException")
            /\ UNCHANGED <<elapsed, waitsOK>>
       ELSE IF grid = "visible"
       THEN /\ pc' = "extract"
            /\ waitsOK' = waitsOK + 1
            /\ UNCHANGED <<elapsed, error>>
       ELSE WaitAgain /\ UNCHANGED waitsOK
    /\ UNCHANGED <<session, current_page, total_pages, table_headers,
                   table_data, csv, element>>
    /\ UNCHANGED page
    /\ UNCHANGED <<extractions, clicks, exportCount, quitCalls, earlyRead,
                   sawZero, firstNonZero, startPage>>

\* Lines 76-81: the rows the document holds now are appended.
Extract ==
    /\ pc = "extract"
    /\ table_data' = table_data \o
                     (IF grid = "absent" THEN <<>> ELSE RowsOf(gridPage))
    /\ extractions' = extractions + 1
    /\ pc' = "last_test"
    /\ UNCHANGED <<session, current_page, total_pages, table_headers, csv,
                   elapsed, element, error>>
    /\ UNCHANGED page
    /\ UNCHANGED <<waitsOK, clicks, exportCount, quitCalls, earlyRead,
                   sawZero, firstNonZero, startPage>>

\* The paging loop without its break on the last page.
LastTestNoBreak ==
    /\ pc = "last_test"
    /\ pc' = "click"
    /\ UNCHANGED <<session, current_page, total_pages, table_headers,
                   table_data, csv, elapsed, element, error>>
    /\ UNCHANGED <<page, hist>>

\* Lines 82-83: if current_page == total_pages: break.
LastTest ==
    /\ pc = "last_test"
    /\ pc' = IF current_page = total_pages THEN "quit" ELSE "click"
    /\ UNCHANGED <<session, current_page, total_pages, table_headers,
                   table_data, csv, elapsed, element, error>>
    /\ UNCHANGED <<page, hist>>

\* click_next_button: the script clicks the Next link and returns.
click_next_button ==
    /\ pc = "click"
    /\ pending' = pending + 1
    /\ clicks' = clicks + 1
    /\ pc' = "increment"
    /\ UNCHANGED <<session, current_page, total_pages, table_headers,
                   table_data, csv, elapsed, element, error>>
    /\ UNCHANGED <<T, lastRows, pager, grid, gridPage>>
    /\ UNCHANGED <<waitsOK, extractions, exportCount, quitCalls, earlyRead,
                   sawZero, firstNonZero, startPage>>

\* Line 85: current_page += 1.
Increment ==
    /\ pc = "increment"
    /\ current_page' = current_page + 1
    /\ pc' = "loop_test"
    /\ UNCHANGED <<session, total_pages, table_headers, table_data, csv,
                   elapsed, element, error>>
    /\ UNCHANGED <<page, hist>>

\* get_data_elements_metadata leaving the teardown to finalize.
QuitLeftToFinalize ==
    /\ pc = "quit"
    /\ pc' = "export"
    /\ UNCHANGED <<session, current_page, total_pages, table_headers,
                   table_data, csv, elapsed, element, error>>
    /\ UNCHANGED <<page, hist>>

\* Line 86: self.driver.quit().
Quit ==
    /\ pc = "quit"
    /\ session' = "quit"
    /\ quitCalls' = quitCalls + 1
    /\ pc' = "export"
    /\ UNCHANGED <<current_page, total_pages, table_headers, table_data, csv,
                   elapsed, element, error>>
    /\ UNCHANGED page
    /\ UNCHANGED <<waitsOK, extractions, clicks, exportCount, earlyRead,
                   sawZero, firstNonZero, startPage>>

\* Lines 87-89: the DataFrame is built and written, or to_csv raises.
Export ==
    /\ pc = "export"
    /\ \/ /\ csv' = table_data
          /\ exportCount' = exportCount + 1
          /\ pc' = "finalize"
          /\ UNCHANGED error
       \/ /\ Raise("OSError")
          /\ UNCHANGED <<csv, exportCount>>
    /\ UNCHANGED <<session, current_page, total_pages, table_headers,
                   table_data, elapsed, element>>
    /\ UNCHANGED page
    /\ UNCHANGED <<waitsOK, extractions, clicks, quitCalls, earlyRead,
                   sawZero, firstNonZero, startPage>>

\* Line 106 / finalize: self.driver.quit() once download_metadata returned.
finalize ==
    /\ pc = "finalize"
    /\ session' = "quit"
    /\ quitCalls' = quitCalls + 1
    /\ pc' = "done"
    /\ UNCHANGED <<current_page, total_pages, table_headers, table_data, csv,
                   elapsed, element, error>>
    /\ UNCHANGED page
    /\ UNCHANGED <<waitsOK, extractions, clicks, exportCount, earlyRead,
                   sawZero, firstNonZero, startPage>>

Run ==
    \/ setup_webdriver
    \/ load_page
    \/ ReadCurrentPage
    \/ TotalFirst
    \/ TotalTest
    \/ TotalAgain
    \/ ReadHeaders
    \/ LoopTest
    \/ WaitPresence
    \/ FindElement
    \/ WaitVisible
    \/ Extract
    \/ LastTest
    \/ click_next_button
    \/ Increment
    \/ Quit
    \/ Export
    \/ finalize

Next == Run \/ Env

Spec == Init /\ [][Next]_vars

\* The interpreter keeps executing the control thread; the remote page owes
\* nothing.
FairSpec == Spec /\ WF_vars(Run)

\* ------------------------------------------------------------ properties
Terminal == pc \in {"done", "aborted"}

\* The paging loop has been left through line 86.
LoopExited ==
    \/ pc \in {"quit", "export", "finalize", "done"}
    \/ pc = "aborted" /\ error = "OSError"

\* The control thread is inside the paging loop (lines 68-85).
InPaging ==
    pc \in {"read_headers", "loop_test", "wait_presence", "find_element",
            "wait_visible", "extract", "last_test", "click", "increment"}

\* A WebDriverWait.until has run past its deadline.
TimedOut == elapsed > Timeout

\* The rows of pages 1..n, in page order then row order.
RECURSIVE AllRows(_)
AllRows(n) == IF n = 0 THEN <<>> ELSE AllRows(n - 1) \o RowsOf(n)

\* C1: in every run that completes, the exported file holds the rows of
\* each page 1..T exactly once, in page order then row order.
C1_ExportHoldsEveryPageOnce ==
    pc = "done" => csv = AllRows(T)

\* C2: every run that opened the browser session ends with the session torn
\* down by driver.quit, whatever ended the run.
C2_SessionTornDownOnEveryExit ==
    (Terminal /\ session # "none") => session = "quit"

\* C3: a timeout of wait_for_table aborts the run: the run is in its aborted
\* state with TimeoutException, no file was or will be written, and no
\* extraction, click or append follows the timeout.
C3_TimeoutAbortsRun ==
    /\ [](TimedOut => /\ pc = "aborted"
                      /\ error = "TimeoutException"
                      /\ exportCount = 0
                      /\ csv = <<>>)
    /\ [][TimedOut => /\ extractions' = extractions
                      /\ clicks' = clicks
                      /\ table_data' = table_data
                      /\ current_page' = current_page
                      /\ pc' = pc]_vars

\* C3 witness: the wait timed out on a later page, with rows of earlier
\* pages already accumulated.
C3_TimeoutAfterRows ==
    TimedOut /\ pc = "aborted" /\ Len(table_data) > 0 /\ current_page > 1

\* C4: a run that starts on page 1 and leaves the paging loop has made
\* exactly T extractions and T-1 clicks on Next.
C4_ExtractionsAndClicks ==
    (LoopExited /\ startPage = 1) =>
        /\ total_pages = T
        /\ extractions = T
        /\ clicks = T - 1

\* C4 witness: a completed run over a one-page grid, one extraction, no click.
C4_SinglePageRun ==
    pc = "done" /\ startPage = 1 /\ T = 1 /\ extractions = 1 /\ clicks = 0

\* C5: the total used by the paging loop is never zero and is the first
\* non-zero value update_total_pages read.
C5_TotalIsFirstNonZeroRead ==
    InPaging => (total_pages # 0 /\ total_pages = firstNonZero)

\* C5 witness: the pager read zero, then 4, and paging goes on with 4.
C5_ZeroThenFour ==
    sawZero /\ total_pages = 4 /\ pc = "extract"

\* C6: neither the pager text nor the headers are read before a
\* wait_for_table has succeeded.
C6_NoReadBeforeWait == ~earlyRead

\* C7 as stated: the file is written exactly once, from the rows of all
\* pages, while the browser session is still open; the teardown follows.
C7_ExportBeforeTeardown ==
    /\ pc = "export" => exportCount = 0
    /\ pc = "finalize" => /\ exportCount = 1
                          /\ csv = table_data
                          /\ extractions = total_pages - startPage + 1
                          /\ session = "open"
    /\ pc = "done" => exportCount = 1 /\ session = "quit"

\* C7 amended: the file is written exactly once, from the rows of all pages,
\* after driver.quit of line 86 has torn the session down and before the
\* second driver.quit of finalize.
C7_ExportAfterTeardown ==
    /\ pc = "export" => exportCount = 0 /\ session = "quit" /\ quitCalls = 1
    /\ pc = "finalize" => /\ exportCount = 1
                          /\ csv = table_data
                          /\ extractions = total_pages - startPage + 1
                          /\ session = "quit"
                          /\ quitCalls = 1
    /\ pc = "done" => exportCount = 1 /\ session = "quit" /\ quitCalls = 2

\* C7 witness: a completed run over several pages that wrote its file.
C7_CompletedExport ==
    pc = "done" /\ exportCount = 1 /\ T >= 2 /\ extractions = T

\* C8 as stated: every run eventually reaches Done or a fatal abort.
C8_RunTerminates == <>Terminal

\* C8 amended: every run eventually reaches Done or a fatal abort, or stays
\* for ever in the retry loop of get_total_pages; the wait gate and the
\* paging loop never keep it going.
C8_TerminatesOrPollsForEver ==
    <>Terminal \/ <>[](pc \in {"total_test", "total_again"})

\* C8 witness: a run that polled a zero total, went on and completed.
C8_PolledThenDone ==
    pc = "done" /\ sawZero /\ waitsOK > 1

\* C9: on every page the wait succeeds before the extraction, the rows are
\* appended before the click, the click is issued only when i < T, and the
\* counter is incremented only after that click.
C9_StepOrder ==
    [][/\ extractions' # extractions =>
            /\ waitsOK = extractions + 1
            /\ extractions = current_page - startPage
       /\ waitsOK' # waitsOK =>
            /\ waitsOK = extractions
            /\ clicks = current_page - startPage
       /\ clicks' # clicks =>
            /\ extractions = clicks + 1
            /\ clicks = current_page - startPage
            /\ current_page < total_pages
       /\ (current_page' # current_page /\ startPage' = startPage) =>
            /\ current_page' = current_page + 1
            /\ clicks = current_page - startPage + 1
            /\ current_page < total_pages]_vars

\* C9 witness: a completed run that clicked Next at least twice.
C9_SeveralPagesDone ==
    pc = "done" /\ clicks >= 2

\* C10: at every row extraction the counter lies in 1..T and is the page the
\* grid displays.
C10_CounterIsDisplayedPage ==
    pc = "extract" =>
        /\ 1 <= current_page
        /\ current_page <= total_pages
        /\ current_page = gridPage

====
